---- MODULE Spec2Model ----
(***************************************************************************)
(* Model of packages/circuit/rust/gate.rs: the Python-facing QuantumGate   *)
(* and ParametricQuantumGate value types -- construction (py_new),         *)
(* __repr__, __reduce__, __hash__, the derived equality and the canonical  *)
(* string form (format_tuple, get_compat_string).                          *)
(*                                                                         *)
(* Conventions.                                                            *)
(*  - Option<T>: None is <<>>, Some(x) is <<x>>.                           *)
(*  - f64 values are named by the strings in Floats; f64_eq, to_le_bytes   *)
(*    and DisplayF64 give their IEEE-754 comparison, bit pattern and Rust  *)
(*    Display text.                                                        *)
(*  - A Rust String built by format! is a sequence of text fragments; Str  *)
(*    concatenates the fragments into the text itself.                     *)
(*  - A DefaultHasher is the sequence of bytes written to it; finish() is  *)
(*    a fixed function (SipHash-1-3, zero keys) of that sequence and is    *)
(*    modelled as the sequence itself.                                     *)
(***************************************************************************)
EXTENDS Integers, Sequences, FiniteSets, TLC

VARIABLES args, g, err, via, tuple, out, pc

vars == <<args, g, err, via, tuple, out, pc>>

(***************************************************************************)
(* Bounds of the explored inputs.                                          *)
(***************************************************************************)
MaxTargets == 2
MaxControls == 1
MaxClassical == 1
MaxParams == 1
MaxPaulis == 1

None == <<>>
Some(x) == <<x>>

RECURSIVE SeqsOfLen(_, _)
SeqsOfLen(S, n) ==
  IF n = 0 THEN {<<>>}
  ELSE {Append(s, x) : s \in SeqsOfLen(S, n - 1), x \in S}

SeqsUpTo(S, n) == UNION {SeqsOfLen(S, k) : k \in 0..n}

(***************************************************************************)
(* f64.                                                                    *)
(***************************************************************************)
PosZero == "0.0"
NegZero == "-0.0"
Half == "0.5"
One == "1.0"
NaN == "NaN"
Floats == {PosZero, NegZero, Half, One, NaN}

\* f64 == f64 (IEEE-754): NaN differs from everything, the two zeros are equal.
f64_eq(a, b) ==
  /\ a # NaN
  /\ b # NaN
  /\ (a = b \/ {a, b} = {PosZero, NegZero})

\* f64::to_le_bytes: the 8 bytes of the bit pattern, least significant first.
to_le_bytes(f) ==
  CASE f = PosZero -> <<0, 0, 0, 0, 0, 0, 0, 0>>
    [] f = NegZero -> <<0, 0, 0, 0, 0, 0, 0, 128>>
    [] f = Half    -> <<0, 0, 0, 0, 0, 0, 224, 63>>
    [] f = One     -> <<0, 0, 0, 0, 0, 0, 240, 63>>
    [] f = NaN     -> <<0, 0, 0, 0, 0, 0, 248, 127>>

\* format!("{}", f) of an f64.
DisplayF64(f) ==
  CASE f = PosZero -> "0"
    [] f = NegZero -> "-0"
    [] f = Half    -> "0.5"
    [] f = One     -> "1"
    [] f = NaN     -> "NaN"

\* Complex64 { re, im }.
Cplx(re, im) == [re |-> re, im |-> im]
C0 == Cplx(PosZero, PosZero)
C1 == Cplx(One, PosZero)

\* Complex64 == Complex64: component-wise f64 comparison.
complex_eq(a, b) == f64_eq(a.re, b.re) /\ f64_eq(a.im, b.im)

\* format!("{}", c) of a Complex64 with a non-negative imaginary part.
DisplayComplex(c) == DisplayF64(c.re) \o "+" \o DisplayF64(c.im) \o "i"

(***************************************************************************)
(* Inputs of the constructors.                                             *)
(***************************************************************************)
Names == {"X", "RX", "CNOT", "Pauli", "UnitaryMatrix", "Foo"}
Qubits == {0, 1}
ControlQubits == {0}
ClassicalBits == {0}
ParamValues == {PosZero, NegZero, Half, NaN}
PauliIds == {3}

Id1 == <<<<C1>>>>
Id2 == <<<<C1, C0>>, <<C0, C1>>>>
Id4 == <<<<C1, C0, C0, C0>>, <<C0, C1, C0, C0>>,
         <<C0, C0, C1, C0>>, <<C0, C0, C0, C1>>>>
Ragged2 == <<<<C1, C0>>, <<C1>>>>

\* unitary_matrix: Option<Vec<Vec<Complex64>>>; Some(<<>>) is a matrix of no rows.
Matrices ==
  {None, Some(<<>>), Some(Id1), Some(Id2), Some(Id4), Some(Ragged2)}

Bag(n, t, c, cl, p, pa, m) ==
  [name |-> n, target_indices |-> t, control_indices |-> c,
   classical_indices |-> cl, params |-> p, pauli_ids |-> pa,
   unitary_matrix |-> m]

Bags ==
  {Bag(n, t, c, cl, p, pa, m) :
     n \in Names,
     t \in SeqsUpTo(Qubits, MaxTargets),
     c \in SeqsUpTo(ControlQubits, MaxControls),
     cl \in SeqsUpTo(ClassicalBits, MaxClassical),
     p \in SeqsUpTo(ParamValues, MaxParams),
     pa \in SeqsUpTo(PauliIds, MaxPaulis),
     m \in Matrices}

(***************************************************************************)
(* The Gate-Kind Table and the Normalizer (QuriPartsGate::from_property,   *)
(* into_property).  For each recognized name: the allowed number of        *)
(* targets, controls, classical bits, parameters and Pauli tags, whether   *)
(* the Pauli tags must be as many as the targets, and the matrix rule      *)
(* ("none": no matrix; "pow2": a square matrix of dimension 2^targets).    *)
(***************************************************************************)
Kind(t, c, cl, p, pa, same, m) ==
  [targets |-> t, controls |-> c, classical |-> cl, params |-> p,
   paulis |-> pa, paulis_as_targets |-> same, matrix |-> m]

GateKindTable ==
  [n \in {"X", "RX", "CNOT", "Pauli", "UnitaryMatrix"} |->
     CASE n = "X"             -> Kind({1}, {0}, {0}, {0}, {0}, FALSE, "none")
       [] n = "RX"            -> Kind({1}, {0}, {0}, {1}, {0}, FALSE, "none")
       [] n = "CNOT"          -> Kind({1}, {1}, {0}, {0}, {0}, FALSE, "none")
       [] n = "Pauli"         -> Kind(Nat, {0}, {0}, {0}, Nat, TRUE, "none")
       [] n = "UnitaryMatrix" -> Kind(Nat, {0}, {0}, {0}, {0}, FALSE, "pow2")]

IsSquare(mat, dim) ==
  /\ Len(mat) = dim
  /\ \A i \in 1..Len(mat) : Len(mat[i]) = dim

MatrixOK(rule, prop) ==
  IF rule = "none" THEN prop.unitary_matrix = None
  ELSE /\ prop.unitary_matrix # None
       /\ IsSquare(prop.unitary_matrix[1], 2 ^ Len(prop.target_indices))

ShapeOK(prop) ==
  /\ prop.name \in DOMAIN GateKindTable
  /\ LET e == GateKindTable[prop.name] IN
       /\ Len(prop.target_indices) \in e.targets
       /\ Len(prop.control_indices) \in e.controls
       /\ Len(prop.classical_indices) \in e.classical
       /\ Len(prop.params) \in e.params
       /\ Len(prop.pauli_ids) \in e.paulis
       /\ (e.paulis_as_targets =>
             Len(prop.pauli_ids) = Len(prop.target_indices))
       /\ MatrixOK(e.matrix, prop)

\* QuriPartsGate::<f64>::from_property: Option<QuriPartsGate<f64>>.
from_property(prop) ==
  IF ShapeOK(prop) THEN Some([wrapped |-> prop]) ELSE None

\* QuriPartsGate::into_property.
into_property(gate) == gate.wrapped

(***************************************************************************)
(* QuantumGate.                                                            *)
(***************************************************************************)
Ok(v) == [ok |-> TRUE, val |-> v]
Err(e) == [ok |-> FALSE, err |-> e]
PyValueError(msg) == [kind |-> "ValueError", msg |-> msg]

QuantumGate(inner) == [cls |-> "QuantumGate", inner |-> inner]

\* py_new with target_indices and control_indices exchanged in the property.
py_new_swapped(name, target_indices, control_indices, classical_indices, params, pauli_ids, unitary_matrix_in) ==
  LET unitary_matrix ==
        IF unitary_matrix_in # None /\ Len(unitary_matrix_in[1]) = 0
        THEN None ELSE unitary_matrix_in
      prop == Bag(name, control_indices, target_indices, classical_indices,
                  params, pauli_ids, unitary_matrix)
      made == from_property(prop)
  IN IF made # None
     THEN Ok(QuantumGate(made[1]))
     ELSE Err(PyValueError("Cannot initialize QuantumGate with " \o name))

\* py_new with an error message that leaves the name out.
py_new_anonymous(name, target_indices, control_indices, classical_indices, params, pauli_ids, unitary_matrix_in) ==
  LET unitary_matrix ==
        IF unitary_matrix_in # None /\ Len(unitary_matrix_in[1]) = 0
        THEN None ELSE unitary_matrix_in
      prop == Bag(name, target_indices, control_indices, classical_indices,
                  params, pauli_ids, unitary_matrix)
      made == from_property(prop)
  IN IF made # None
     THEN Ok(QuantumGate(made[1]))
     ELSE Err(PyValueError("Cannot initialize QuantumGate"))

\* QuantumGate::py_new: a matrix of no rows becomes None, then from_property.
py_new(name, target_indices, control_indices, classical_indices, params, pauli_ids, unitary_matrix_in) ==
  LET unitary_matrix ==
        IF unitary_matrix_in # None /\ Len(unitary_matrix_in[1]) = 0
        THEN None ELSE unitary_matrix_in
      prop == Bag(name, target_indices, control_indices, classical_indices,
                  params, pauli_ids, unitary_matrix)
      made == from_property(prop)
  IN IF made # None
     THEN Ok(QuantumGate(made[1]))
     ELSE Err(PyValueError("Cannot initialize QuantumGate with " \o name))

py_new_bag(b) ==
  py_new(b.name, b.target_indices, b.control_indices, b.classical_indices,
         b.params, b.pauli_ids, b.unitary_matrix)

\* QuantumGate::py_reduce: the constructor arguments (the class object aside).
py_reduce(self) ==
  LET data == into_property(self.inner) IN
  <<data.name, data.target_indices, data.control_indices,
    data.classical_indices, data.params, data.pauli_ids,
    data.unitary_matrix>>

(***************************************************************************)
(* Hashing: what each Hash impl writes to the hasher.                      *)
(***************************************************************************)
RECURSIVE Flatten(_)
Flatten(ss) == IF ss = <<>> THEN <<>> ELSE Head(ss) \o Flatten(Tail(ss))

\* <str as Hash>::hash: the bytes of the text, then 0xff.
hash_str(s) == <<s, 255>>

\* <[T] as Hash>::hash for integers and byte arrays: the length, then the items.
hash_slice(v) == <<Len(v)>> \o v

\* QuantumGate::py_hash
py_hash(self) ==
  LET data == into_property(self.inner)
      ps == Flatten([i \in 1..Len(data.params) |->
                       hash_slice(to_le_bytes(data.params[i]))])
      row(r) == Flatten([j \in 1..Len(r) |->
                           hash_slice(to_le_bytes(r[j].re))
                           \o hash_slice(to_le_bytes(r[j].im))])
      mat == IF data.unitary_matrix # None
             THEN Flatten([i \in 1..Len(data.unitary_matrix[1]) |->
                             row(data.unitary_matrix[1][i])])
             ELSE <<>>
  IN hash_str(data.name)
     \o hash_slice(data.target_indices)
     \o hash_slice(data.control_indices)
     \o hash_slice(data.classical_indices)
     \o ps
     \o hash_slice(data.pauli_ids)
     \o mat

(***************************************************************************)
(* Equality: #[derive(PartialEq)], field by field.                         *)
(***************************************************************************)
vec_f64_eq(a, b) ==
  /\ Len(a) = Len(b)
  /\ \A i \in 1..Len(a) : f64_eq(a[i], b[i])

row_eq(a, b) ==
  /\ Len(a) = Len(b)
  /\ \A i \in 1..Len(a) : complex_eq(a[i], b[i])

matrix_eq(a, b) ==
  /\ Len(a) = Len(b)
  /\ (a # None =>
        /\ Len(a[1]) = Len(b[1])
        /\ \A i \in 1..Len(a[1]) : row_eq(a[1][i], b[1][i]))

property_eq(a, b) ==
  /\ a.name = b.name
  /\ a.target_indices = b.target_indices
  /\ a.control_indices = b.control_indices
  /\ a.classical_indices = b.classical_indices
  /\ vec_f64_eq(a.params, b.params)
  /\ a.pauli_ids = b.pauli_ids
  /\ matrix_eq(a.unitary_matrix, b.unitary_matrix)

\* QuantumGate == QuantumGate
gate_eq(a, b) == property_eq(into_property(a.inner), into_property(b.inner))

(***************************************************************************)
(* The canonical string form.  An item of format_tuple is the Display text *)
(* of one element, as fragments.                                           *)
(***************************************************************************)
RECURSIVE Join(_, _)
Join(items, sep) ==
  IF Len(items) = 0 THEN <<>>
  ELSE IF Len(items) = 1 THEN items[1]
  ELSE items[1] \o <<sep>> \o Join(Tail(items), sep)

RECURSIVE Str(_)
Str(frags) == IF frags = <<>> THEN "" ELSE Head(frags) \o Str(Tail(frags))

DisplayInts(v) == [i \in 1..Len(v) |-> <<ToString(v[i])>>]
DisplayF64s(v) == [i \in 1..Len(v) |-> <<DisplayF64(v[i])>>]
DisplayComplexes(v) == [i \in 1..Len(v) |-> <<DisplayComplex(v[i])>>]

\* format_tuple with the "," added for input.len() <= 1.
format_tuple_short(input) ==
  LET joined == Join(input, ", ") IN
  IF Len(input) <= 1 THEN joined \o <<",">> ELSE joined

\* format_tuple: the items joined by ", ", and a "," after a single item.
format_tuple(input) ==
  LET joined == Join(input, ", ") IN
  IF Len(input) = 1 THEN joined \o <<",">> ELSE joined

\* The last argument of the format! of get_compat_string.
matrix_text(unitary_matrix) ==
  IF unitary_matrix # None
  THEN format_tuple([i \in 1..Len(unitary_matrix[1]) |->
         <<"(">> \o format_tuple(DisplayComplexes(unitary_matrix[1][i]))
                 \o <<")">>])
  ELSE <<"(", ")">>

\* GenericGateProperty::get_compat_string
get_compat_string(self) ==
  <<"QuantumGate(name='", self.name, "'", ", ", "target_indices=", "(">>
  \o format_tuple(DisplayInts(self.target_indices))
  \o <<")", ", ", "control_indices=", "(">>
  \o format_tuple(DisplayInts(self.control_indices))
  \o <<")", ", ", "classical_indices=", "(">>
  \o format_tuple(DisplayInts(self.classical_indices))
  \o <<")", ", ", "params=", "(">>
  \o format_tuple(DisplayF64s(self.params))
  \o <<")", ", ", "pauli_ids=", "(">>
  \o format_tuple(DisplayInts(self.pauli_ids))
  \o <<")", ", ", "unitary_matrix=">>
  \o matrix_text(self.unitary_matrix)
  \o <<")">>

\* GenericGateProperty::get_compat_string_parametric
get_compat_string_parametric(self) ==
  <<"ParametricQuantumGate(name='", self.name, "'", ", ",
    "target_indices=", "(">>
  \o format_tuple(DisplayInts(self.target_indices))
  \o <<")", ", ", "control_indices=", "(">>
  \o format_tuple(DisplayInts(self.control_indices))
  \o <<")", ", ", "pauli_ids=", "(">>
  \o format_tuple(DisplayInts(self.pauli_ids))
  \o <<")", ")">>

\* QuantumGate::py_repr
py_repr(self) == get_compat_string(into_property(self.inner))

(***************************************************************************)
(* ParametricQuantumGate.                                                  *)
(***************************************************************************)
ParametricQuantumGate(prop) == [cls |-> "ParametricQuantumGate", prop |-> prop]

\* parametric py_new with target_indices and control_indices exchanged.
parametric_py_new_swapped(name, target_indices, control_indices, pauli_ids) ==
  ParametricQuantumGate(
    [name |-> name, target_indices |-> control_indices,
     control_indices |-> target_indices, pauli_ids |-> pauli_ids,
     classical_indices |-> <<>>, params |-> <<>>, unitary_matrix |-> None])

\* ParametricQuantumGate::py_new: no validation; the other fields are fixed.
parametric_py_new(name, target_indices, control_indices, pauli_ids) ==
  ParametricQuantumGate(
    [name |-> name, target_indices |-> target_indices,
     control_indices |-> control_indices, pauli_ids |-> pauli_ids,
     classical_indices |-> <<>>, params |-> <<>>, unitary_matrix |-> None])

\* ParametricQuantumGate::py_repr
parametric_py_repr(self) == get_compat_string_parametric(self.prop)

\* py_reduce returning control_indices before target_indices.
parametric_py_reduce_swapped(self) ==
  <<self.prop.name, self.prop.control_indices, self.prop.target_indices,
    self.prop.pauli_ids>>

\* ParametricQuantumGate::py_reduce
parametric_py_reduce(self) ==
  <<self.prop.name, self.prop.target_indices, self.prop.control_indices,
    self.prop.pauli_ids>>

\* ParametricQuantumGate::py_hash
parametric_py_hash(self) ==
  LET data == self.prop
      ps == Flatten([i \in 1..Len(data.params) |->
                       hash_slice(to_le_bytes(data.params[i]))])
  IN hash_str(data.name)
     \o hash_slice(data.target_indices)
     \o hash_slice(data.control_indices)
     \o ps
     \o hash_slice(data.pauli_ids)

\* ParametricQuantumGate::get_params
parametric_get_params(self) == self.prop.params

\* ParametricQuantumGate == ParametricQuantumGate
parametric_eq(a, b) == property_eq(a.prop, b.prop)

(***************************************************************************)
(* State.                                                                  *)
(*   args  : the arguments of the first constructor call                   *)
(*   g     : the value each of the two calls returned (None: none)         *)
(*   err   : the exception each of the two calls raised (None: none)       *)
(*   via   : how the second value was built                                *)
(*   tuple : the argument tuple the last __reduce__ returned               *)
(*   out   : what the last __repr__, __hash__, __eq__ or getter returned   *)
(*   pc    : how far the calls have come                                   *)
(***************************************************************************)
Slots == {1, 2}
Fields ==
  {"name", "target_indices", "control_indices", "classical_indices",
   "params", "pauli_ids", "unitary_matrix"}
ParametricFields ==
  {"name", "target_indices", "control_indices", "params", "pauli_ids"}

Nothing ==
  /\ g = [s \in Slots |-> None]
  /\ err = [s \in Slots |-> None]
  /\ via = ""
  /\ tuple = None
  /\ out = None

IsGate(s) == g[s] # None /\ g[s][1].cls = "QuantumGate"
IsParametric(s) == g[s] # None /\ g[s][1].cls = "ParametricQuantumGate"

\* A constructor call returning r, stored as the value of slot s.
Returned(s, r) ==
  /\ g' = [g EXCEPT ![s] = IF r.ok THEN Some(r.val) ELSE None]
  /\ err' = [err EXCEPT ![s] = IF r.ok THEN None ELSE Some(r.err)]

Init ==
  /\ args \in Bags
  /\ pc = "start"
  /\ Nothing

\* QuantumGate(name, target_indices, ..., unitary_matrix)
New ==
  /\ pc = "start"
  /\ Returned(1, py_new_bag(args))
  /\ pc' = "built"
  /\ UNCHANGED <<args, via, tuple, out>>

\* The same call a second time.
NewAgain ==
  /\ pc = "built"
  /\ via = ""
  /\ Returned(2, py_new_bag(args))
  /\ via' = "again"
  /\ UNCHANGED <<args, tuple, out, pc>>

\* The same call with unitary_matrix left to its default, None.
NewOmitMatrix ==
  /\ pc = "built"
  /\ via = ""
  /\ Returned(2, py_new(args.name, args.target_indices, args.control_indices,
                        args.classical_indices, args.params, args.pauli_ids,
                        None))
  /\ via' = "omitted"
  /\ UNCHANGED <<args, tuple, out, pc>>

\* repr(gate)
Repr(s) ==
  /\ IsGate(s)
  /\ out' = Some([op |-> "repr", slot |-> s, val |-> py_repr(g[s][1])])
  /\ UNCHANGED <<args, g, err, via, tuple, pc>>

\* hash(gate)
Hash(s) ==
  /\ IsGate(s)
  /\ out' = Some([op |-> "hash", slot |-> s, val |-> py_hash(g[s][1])])
  /\ UNCHANGED <<args, g, err, via, tuple, pc>>

\* gate1 == gate2
Eq ==
  /\ IsGate(1)
  /\ IsGate(2)
  /\ out' = Some([op |-> "eq", slot |-> 1, val |-> gate_eq(g[1][1], g[2][1])])
  /\ UNCHANGED <<args, g, err, via, tuple, pc>>

\* QuantumGate::get_name .. get_unitary_matrix (an absent matrix reads as ()).
getter(self, f) ==
  LET data == into_property(self.inner) IN
  IF f = "unitary_matrix"
  THEN (IF data.unitary_matrix # None THEN data.unitary_matrix[1] ELSE <<>>)
  ELSE data[f]

Get(s, f) ==
  /\ IsGate(s)
  /\ out' = Some([op |-> f, slot |-> s, val |-> getter(g[s][1], f)])
  /\ UNCHANGED <<args, g, err, via, tuple, pc>>

\* gate.__reduce__()
Reduce ==
  /\ IsGate(1)
  /\ tuple = None
  /\ tuple' = Some(py_reduce(g[1][1]))
  /\ UNCHANGED <<args, g, err, via, out, pc>>

\* The class applied to the reduced tuple (what unpickling does).
Recompose ==
  /\ tuple # None
  /\ via = ""
  /\ LET t == tuple[1] IN
       Returned(2, py_new(t[1], t[2], t[3], t[4], t[5], t[6], t[7]))
  /\ via' = "recomposed"
  /\ UNCHANGED <<args, tuple, out, pc>>

Next ==
  \/ New
  \/ NewAgain
  \/ NewOmitMatrix
  \/ \E s \in Slots : Repr(s)
  \/ \E s \in Slots : Hash(s)
  \/ Eq
  \/ \E s \in Slots, f \in Fields : Get(s, f)
  \/ Reduce
  \/ Recompose

Spec == Init /\ [][Next]_vars

(***************************************************************************)
(* Two independent constructor calls, for statements about pairs of gates. *)
(***************************************************************************)
InitPair ==
  /\ args = None
  /\ pc = "first"
  /\ Nothing

NewFirst ==
  /\ pc = "first"
  /\ \E b \in Bags : Returned(1, py_new_bag(b))
  /\ pc' = "second"
  /\ UNCHANGED <<args, via, tuple, out>>

NewSecond ==
  /\ pc = "second"
  /\ \E b \in Bags : Returned(2, py_new_bag(b))
  /\ pc' = "both"
  /\ via' = "independent"
  /\ UNCHANGED <<args, tuple, out>>

NextPair ==
  \/ NewFirst
  \/ NewSecond
  \/ \E s \in Slots : Repr(s)
  \/ \E s \in Slots : Hash(s)
  \/ Eq

SpecPair == InitPair /\ [][NextPair]_vars

(***************************************************************************)
(* ParametricQuantumGate calls.                                            *)
(***************************************************************************)
ParametricPauliIds == {1, 3}

ParametricBags ==
  {[name |-> n, target_indices |-> t, control_indices |-> c, pauli_ids |-> pa] :
     n \in Names,
     t \in SeqsUpTo(Qubits, MaxTargets),
     c \in SeqsUpTo(Qubits, MaxControls),
     pa \in SeqsUpTo(ParametricPauliIds, MaxPaulis)}

InitParametric ==
  /\ args \in ParametricBags
  /\ pc = "start"
  /\ Nothing

\* ParametricQuantumGate(name, target_indices, control_indices, pauli_ids)
ParametricNew ==
  /\ pc = "start"
  /\ Returned(1, Ok(parametric_py_new(args.name, args.target_indices,
                                      args.control_indices, args.pauli_ids)))
  /\ pc' = "built"
  /\ UNCHANGED <<args, via, tuple, out>>

ParametricRepr(s) ==
  /\ IsParametric(s)
  /\ out' = Some([op |-> "repr", slot |-> s, val |-> parametric_py_repr(g[s][1])])
  /\ UNCHANGED <<args, g, err, via, tuple, pc>>

ParametricHash(s) ==
  /\ IsParametric(s)
  /\ out' = Some([op |-> "hash", slot |-> s, val |-> parametric_py_hash(g[s][1])])
  /\ UNCHANGED <<args, g, err, via, tuple, pc>>

ParametricEq ==
  /\ IsParametric(1)
  /\ IsParametric(2)
  /\ out' = Some([op |-> "eq", slot |-> 1,
                  val |-> parametric_eq(g[1][1], g[2][1])])
  /\ UNCHANGED <<args, g, err, via, tuple, pc>>

\* ParametricQuantumGate::get_name .. get_pauli_ids
parametric_getter(self, f) ==
  IF f = "params" THEN parametric_get_params(self) ELSE self.prop[f]

ParametricGet(s, f) ==
  /\ IsParametric(s)
  /\ out' = Some([op |-> f, slot |-> s, val |-> parametric_getter(g[s][1], f)])
  /\ UNCHANGED <<args, g, err, via, tuple, pc>>

ParametricReduce ==
  /\ IsParametric(1)
  /\ tuple = None
  /\ tuple' = Some(parametric_py_reduce(g[1][1]))
  /\ UNCHANGED <<args, g, err, via, out, pc>>

ParametricRecompose ==
  /\ tuple # None
  /\ via = ""
  /\ LET t == tuple[1] IN
       Returned(2, Ok(parametric_py_new(t[1], t[2], t[3], t[4])))
  /\ via' = "recomposed"
  /\ UNCHANGED <<args, tuple, out, pc>>

NextParametric ==
  \/ ParametricNew
  \/ \E s \in Slots : ParametricRepr(s)
  \/ \E s \in Slots : ParametricHash(s)
  \/ ParametricEq
  \/ \E s \in Slots, f \in ParametricFields : ParametricGet(s, f)
  \/ ParametricReduce
  \/ ParametricRecompose

SpecParametric == InitParametric /\ [][NextParametric]_vars

(***************************************************************************)
(* Reading a canonical string back: the text of each field.                *)
(***************************************************************************)
Markers ==
  <<"target_indices=", "control_indices=", "classical_indices=", "params=",
    "pauli_ids=", "unitary_matrix=">>
MarkerField ==
  <<"target_indices", "control_indices", "classical_indices", "params",
    "pauli_ids", "unitary_matrix">>

Pos(r, tok) == CHOOSE i \in 1..Len(r) : r[i] = tok

\* The fragments between the k-th field's "name=" and the ", " or the final
\* ")" that ends the field.
FieldText(r, k) ==
  SubSeq(r, Pos(r, Markers[k]) + 1,
         IF k < Len(Markers) THEN Pos(r, Markers[k + 1]) - 2 ELSE Len(r) - 1)

RECURSIVE Depth(_, _)
Depth(t, i) ==
  IF i = 0 THEN 0
  ELSE Depth(t, i - 1)
       + (IF t[i] = "(" THEN 1 ELSE IF t[i] = ")" THEN 0 - 1 ELSE 0)

\* t is one parenthesized group: it opens with "(" and that "(" closes at the end.
Enclosed(t) ==
  /\ Len(t) >= 2
  /\ t[1] = "("
  /\ t[Len(t)] = ")"
  /\ \A i \in 1..(Len(t) - 1) : Depth(t, i) >= 1
  /\ Depth(t, Len(t)) = 0

ReprOut == out # None /\ out[1].op = "repr"
OutGate == into_property(g[out[1].slot][1].inner)

(***************************************************************************)
(* Claims.                                                                 *)
(***************************************************************************)

\* C1: a gate that py_new produced, reduced to its argument tuple and built
\* again from that tuple, is built successfully and equals the original.
C1_RoundTrip ==
  via = "recomposed" =>
    /\ IsGate(2)
    /\ err[2] = None
    /\ gate_eq(g[1][1], g[2][1])

\* C2: two gates that compare equal have equal hashes.
C2_EqualGatesHashEqual ==
  (IsGate(1) /\ IsGate(2) /\ gate_eq(g[1][1], g[2][1])) =>
    py_hash(g[1][1]) = py_hash(g[2][1])

\* C3: two successful constructions from the same argument tuple give gates
\* that compare equal and hash equal.
C3_SameArgsEqual ==
  (via = "again" /\ IsGate(1) /\ IsGate(2)) =>
    /\ gate_eq(g[1][1], g[2][1])
    /\ py_hash(g[1][1]) = py_hash(g[2][1])

\* C6: a call with a matrix of no rows ends as the same call without a matrix:
\* both fail, or both give equal gates whose matrix is absent.
C6_EmptyMatrixAsOmitted ==
  (via = "omitted" /\ args.unitary_matrix = Some(<<>>)) =>
    \/ /\ g[1] = None
       /\ g[2] = None
       /\ err[1] # None
       /\ err[2] # None
    \/ /\ IsGate(1)
       /\ IsGate(2)
       /\ gate_eq(g[1][1], g[2][1])
       /\ into_property(g[1][1].inner).unitary_matrix = None
       /\ into_property(g[2][1].inner).unitary_matrix = None

\* C8: the canonical string names the gate and then lists the six fields in
\* the fixed order, each field's value being one parenthesized group, and an
\* absent matrix reads "()".
C8_FullyParenthesized ==
  ReprOut =>
    LET r == out[1].val
        d == OutGate
    IN /\ r[1] = "QuantumGate(name='"
       /\ r[2] = d.name
       /\ r[Len(r)] = ")"
       /\ \A k \in 1..Len(Markers) :
            /\ Cardinality({i \in 1..Len(r) : r[i] = Markers[k]}) = 1
            /\ k > 1 => Pos(r, Markers[k - 1]) < Pos(r, Markers[k])
            /\ Enclosed(FieldText(r, k))
       /\ (d.unitary_matrix = None =>
             Str(FieldText(r, Len(Markers))) = "()")

(***************************************************************************)
(* The field shapes of a call that deviate from the Gate-Kind Table entry  *)
(* of its name.  A matrix of no rows counts as no matrix.                  *)
(***************************************************************************)
Recognized == DOMAIN GateKindTable

HasRows(m) == m # None /\ Len(m[1]) > 0

Deviations(b) ==
  LET e == GateKindTable[b.name]
      nt == Len(b.target_indices)
  IN {f \in {"targets", "controls", "classical", "params", "paulis", "matrix"} :
        CASE f = "targets" -> nt \notin e.targets
          [] f = "controls" -> Len(b.control_indices) \notin e.controls
          [] f = "classical" -> Len(b.classical_indices) \notin e.classical
          [] f = "params" -> Len(b.params) \notin e.params
          [] f = "paulis" ->
               \/ Len(b.pauli_ids) \notin e.paulis
               \/ (e.paulis_as_targets /\ Len(b.pauli_ids) # nt)
          [] f = "matrix" ->
               IF e.matrix = "none" THEN HasRows(b.unitary_matrix)
               ELSE ~(/\ HasRows(b.unitary_matrix)
                      /\ IsSquare(b.unitary_matrix[1], 2 ^ nt))}

Plain(b) ==
  /\ b.control_indices = <<>>
  /\ b.classical_indices = <<>>
  /\ b.pauli_ids = <<>>

CallName(s) == IF s = 2 /\ via = "recomposed" THEN tuple[1][1] ELSE args.name
Called(s) == IF s = 1 THEN pc = "built" ELSE via # ""

\* C5: a constructor call that returns no gate raises a ValueError whose
\* message ends with the name the caller gave, and a call that raises
\* returns no gate.
C5_FailureNamesGate ==
  \A s \in Slots :
    Called(s) =>
      /\ (g[s] = None <=> err[s] # None)
      /\ (err[s] # None =>
            err[s][1] =
              PyValueError("Cannot initialize QuantumGate with " \o CallName(s)))

\* RX without its parameter was rejected, naming RX.
C5_Witness ==
  /\ pc = "built"
  /\ args.name = "RX"
  /\ args.target_indices = <<1>>
  /\ args.params = <<>>
  /\ g[1] = None
  /\ err[1] = Some(PyValueError("Cannot initialize QuantumGate with RX"))

\* The number of elements of the k-th field of a property.
Count(d, k) ==
  IF k < Len(Markers) THEN Len(d[MarkerField[k]])
  ELSE IF d.unitary_matrix = None THEN 0 ELSE Len(d.unitary_matrix[1])

\* What format_tuple gave for the k-th field: the text inside the
\* parentheses the format string puts around it (the matrix has none).
Inner(r, k) ==
  LET t == FieldText(r, k) IN
  IF k < Len(Markers) THEN SubSeq(t, 2, Len(t) - 1)
  ELSE IF t = <<"(", ")">> THEN <<>> ELSE t

\* C7: in the canonical string a field of one element ends with the
\* separator ",", a field of several elements does not, and an empty field
\* is "()"; X on target 0 reads target_indices=(0,).
C7_TrailingSeparator ==
  ReprOut =>
    LET r == out[1].val
        d == OutGate
    IN /\ \A k \in 1..Len(Markers) :
            LET inner == Inner(r, k) IN
              /\ (Count(d, k) = 0 => Str(FieldText(r, k)) = "()")
              /\ (Count(d, k) = 1 => inner # <<>> /\ inner[Len(inner)] = ",")
              /\ (Count(d, k) > 1 => inner # <<>> /\ inner[Len(inner)] # ",")
       /\ (d.target_indices = <<0>> => Str(FieldText(r, 1)) = "(0,)")
       /\ (d.target_indices = <<0, 1>> => Str(FieldText(r, 1)) = "(0, 1)")

\* repr of X on target 0 was taken.
C7_Witness ==
  /\ ReprOut
  /\ OutGate.name = "X"
  /\ OutGate.target_indices = <<0>>
  /\ Str(FieldText(out[1].val, 1)) = "(0,)"
  /\ Str(FieldText(out[1].val, 2)) = "()"

\* C9: the parametric constructor accepts every name and every index and
\* Pauli list, keeps the four arguments as given, and leaves
\* classical_indices and params empty and unitary_matrix absent.
C9_ParametricTotal ==
  pc = "built" =>
    /\ IsParametric(1)
    /\ err[1] = None
    /\ LET d == g[1][1].prop IN
         /\ d.name = args.name
         /\ d.target_indices = args.target_indices
         /\ d.control_indices = args.control_indices
         /\ d.pauli_ids = args.pauli_ids
    /\ \A s \in Slots :
         IsParametric(s) =>
           /\ g[s][1].prop.classical_indices = <<>>
           /\ g[s][1].prop.params = <<>>
           /\ g[s][1].prop.unitary_matrix = None
    /\ (out # None /\ out[1].op = "params" => out[1].val = <<>>)

\* An unrecognized name with two targets was accepted and its params read.
C9_Witness ==
  /\ pc = "built"
  /\ args.name = "Foo"
  /\ args.target_indices = <<1, 0>>
  /\ args.control_indices = <<0>>
  /\ IsParametric(1)
  /\ out # None
  /\ out[1].op = "params"

\* C10: a parametric gate built again from the tuple its __reduce__ returned
\* equals the original and has the same hash and the same canonical string.
C10_ParametricRoundTrip ==
  via = "recomposed" =>
    /\ IsParametric(2)
    /\ parametric_eq(g[1][1], g[2][1])
    /\ parametric_py_hash(g[1][1]) = parametric_py_hash(g[2][1])
    /\ parametric_py_repr(g[1][1]) = parametric_py_repr(g[2][1])

\* A gate whose targets differ from its controls was rebuilt and compared.
C10_Witness ==
  /\ via = "recomposed"
  /\ args.target_indices = <<0, 1>>
  /\ args.control_indices = <<1>>
  /\ args.pauli_ids # <<>>
  /\ out # None
  /\ out[1].op = "eq"
  /\ out[1].val = TRUE

====
